---- MODULE Spec2Model ----
(***************************************************************************)
(* Model of src/main.go: the concurrent migration orchestrator.            *)
(* main fetches the database list, migrateDatabases starts one goroutine   *)
(* per database (connect, load script, execute, send the result, run the   *)
(* deferred db.Close and wg.Done), a further goroutine waits on the        *)
(* WaitGroup and closes the channel, and the caller ranges over the        *)
(* channel until it is closed and drained.                                 *)
(***************************************************************************)
EXTENDS Integers, Sequences, FiniteSets, TLC

\* Largest number of databases fetchDatabases returns in the model.
MaxTargets == 2

\* Database names; the program treats them as opaque strings.
AllNames == <<"db1", "db2", "db3", "db4", "db5", "db6">>

Attempts == 1..MaxTargets

\* Error values carried by a MigrationResult (nil when there is none).
NoError == "nil"
ConnectionError == "ConnectionError"
ScriptLoadError == "ScriptLoadError"
ExecutionError == "ExecutionError"

\* The database lists fetchDatabases may return: for every length up to
\* MaxTargets the list of distinct names, and the list whose last name
\* repeats the first one (the query result is not deduplicated).
DistinctList(n) == [k \in 1..n |-> AllNames[k]]

DuplicateList(n) == [k \in 1..n |-> IF k = n THEN AllNames[1] ELSE AllNames[k]]

DatabaseLists ==
    {DistinctList(n) : n \in 0..MaxTargets} \cup {DuplicateList(n) : n \in 2..MaxTargets}

VARIABLES
    pcMain,      \* position of main / migrateDatabases
    fetchErr,    \* err returned by fetchDatabases
    ctlConn,     \* control connection of fetchDatabases: "none", "open", "closed"
    databases,   \* the list returned by fetchDatabases
    next,        \* index of the next element of the range loop at line 80
    wg,          \* counter of the sync.WaitGroup
    chanCap,     \* capacity of resultsCh
    resultsCh,   \* buffered content of resultsCh, oldest first
    chClosed,    \* resultsCh was closed
    closeCalls,  \* number of close(resultsCh) calls
    results,     \* the slice built by the collecting loop
    returned,    \* the value migrateDatabases returned (<<>> before)
    printed,     \* lines written to standard output
    logged,      \* lines written by log.Fatal
    exitCode,    \* process exit status, -1 while running
    panicked,    \* a goroutine panicked (send on closed channel, negative counter)
    pcCloser,    \* position of the goroutine of lines 112-115
    pc,          \* position of each migration goroutine
    dbName,      \* parameter dbName of each goroutine
    db,          \* local db of each goroutine: handle id, 0 = nil
    err,         \* local err of each goroutine
    defers,      \* deferred calls of each goroutine, last registered first
    sent,        \* history: the results each goroutine sent, in order
    connCalls,   \* history: calls of connectToDatabase per goroutine
    loadCalls,   \* history: calls of readMigrationScript per goroutine
    execCalls,   \* history: calls of executeMigration per goroutine
    connOutcome, \* history: "none", "ok" or "err" of the connect call
    loadOutcome, \* history: the same for the load call
    execOutcome, \* history: the same for the execute call
    handleOwner, \* history: per handle, the goroutine whose connect returned it (0 = not open yet)
    handleDb,    \* history: per handle, the database it was opened for
    closeCount,  \* history: per handle, number of Close calls
    released,    \* history: per goroutine, number of db.Close calls it made
    execOn       \* history: set of <<goroutine, handle>> of the Exec calls

mainVars == <<pcMain, fetchErr, ctlConn, databases, next, chanCap, results, returned,
              printed, logged, exitCode>>

chanVars == <<resultsCh, chClosed, closeCalls>>

localVars == <<pc, dbName, db, err, defers>>

histVars == <<sent, connCalls, loadCalls, execCalls, connOutcome, loadOutcome,
              execOutcome, handleOwner, handleDb, closeCount, released, execOn>>

vars == <<pcMain, fetchErr, ctlConn, databases, next, wg, chanCap, resultsCh, chClosed,
          closeCalls, results, returned, printed, logged, exitCode, panicked, pcCloser,
          pc, dbName, db, err, defers, sent, connCalls, loadCalls, execCalls,
          connOutcome, loadOutcome, execOutcome, handleOwner, handleDb, closeCount,
          released, execOn>>

\* type MigrationResult struct { Database; Success; Error }
MigrationResult(database, success, error) ==
    [Database |-> database, Success |-> success, Error |-> error]

\* The process is alive: neither exited nor brought down by a panic.
Running == exitCode = -1 /\ ~panicked

Init ==
    /\ pcMain = "fetch"
    /\ fetchErr = NoError
    /\ ctlConn = "none"
    /\ databases = <<>>
    /\ next = 1
    /\ wg = 0
    /\ chanCap = 0
    /\ resultsCh = <<>>
    /\ chClosed = FALSE
    /\ closeCalls = 0
    /\ results = <<>>
    /\ returned = <<>>
    /\ printed = <<>>
    /\ logged = <<>>
    /\ exitCode = -1
    /\ panicked = FALSE
    /\ pcCloser = "none"
    /\ pc = [a \in Attempts |-> "none"]
    /\ dbName = [a \in Attempts |-> ""]
    /\ db = [a \in Attempts |-> 0]
    /\ err = [a \in Attempts |-> NoError]
    /\ defers = [a \in Attempts |-> <<>>]
    /\ sent = [a \in Attempts |-> <<>>]
    /\ connCalls = [a \in Attempts |-> 0]
    /\ loadCalls = [a \in Attempts |-> 0]
    /\ execCalls = [a \in Attempts |-> 0]
    /\ connOutcome = [a \in Attempts |-> "none"]
    /\ loadOutcome = [a \in Attempts |-> "none"]
    /\ execOutcome = [a \in Attempts |-> "none"]
    /\ handleOwner = [h \in Attempts |-> 0]
    /\ handleDb = [h \in Attempts |-> ""]
    /\ closeCount = [h \in Attempts |-> 0]
    /\ released = [a \in Attempts |-> 0]
    /\ execOn = {}

(***************************************************************************)
(* main and fetchDatabases                                                 *)
(***************************************************************************)

\* fetchDatabases: sql.Open may fail (no connection to close); the query or
\* a row scan may fail (the deferred db.Close runs); otherwise the names
\* read are returned.
FetchDatabases ==
    /\ Running
    /\ pcMain = "fetch"
    /\ \E outcome \in {"openErr", "queryErr", "scanErr", "ok"} :
         \E list \in DatabaseLists :
            /\ fetchErr' = IF outcome = "ok" THEN NoError ELSE outcome
            /\ ctlConn' = IF outcome = "openErr" THEN "none" ELSE "closed"
            /\ databases' = IF outcome = "ok" THEN list ELSE <<>>
    /\ pcMain' = "fetched"
    /\ UNCHANGED <<next, wg, chanCap, results, returned, printed, logged, exitCode,
                   panicked, pcCloser>>
    /\ UNCHANGED <<chanVars, localVars, histVars>>

\* Faulty variant of the test: the error of fetchDatabases is ignored.
FetchFailedIgnored(e) == FALSE

\* main line 36: if err != nil.
FetchFailed(e) == e # NoError

\* main, lines 36-38: log.Fatal logs the message and exits with status 1.
FatalFetch ==
    /\ Running
    /\ pcMain = "fetched"
    /\ FetchFailed(fetchErr)
    /\ logged' = Append(logged, <<"Failed to fetch databases:", fetchErr>>)
    /\ exitCode' = 1
    /\ pcMain' = "fatal"
    /\ UNCHANGED <<fetchErr, ctlConn, databases, next, wg, chanCap, results, returned,
                   printed, panicked, pcCloser>>
    /\ UNCHANGED <<chanVars, localVars, histVars>>

\* Faulty variant of line 78: the channel is unbuffered.
MakeChanCapUnbuffered(dbs) == 0

\* make(chan MigrationResult, len(databases))
MakeChanCap(dbs) == Len(dbs)

\* main line 41 and migrateDatabases lines 77-78.
StartMigrate ==
    /\ Running
    /\ pcMain = "fetched"
    /\ ~FetchFailed(fetchErr)
    /\ chanCap' = MakeChanCap(databases)
    /\ next' = 1
    /\ pcMain' = "dispatch"
    /\ UNCHANGED <<fetchErr, ctlConn, databases, wg, results, returned, printed, logged,
                   exitCode, panicked, pcCloser>>
    /\ UNCHANGED <<chanVars, localVars, histVars>>

\* Faulty variant of the loop: its body runs once even for an empty list.
MoreTargetsAtLeastOnce(n, dbs) == n <= Len(dbs) \/ n = 1

\* Faulty variant of the loop: it stops before the last element.
MoreTargetsSkipLast(n, dbs) == n < Len(dbs)

\* for _, dbName := range databases: there is a further element.
MoreTargets(n, dbs) == n <= Len(dbs)

\* The element the range loop hands to the goroutine.
RangeElement(n, dbs) == IF n \in DOMAIN dbs THEN dbs[n] ELSE ""

\* Faulty variant of line 83: wg.Done is never called.
DeferDoneMissing(ds) == ds

\* Line 83: defer wg.Done() is the goroutine's first statement.
DeferDone(ds) == <<"wg.Done">> \o ds

\* Lines 80-83: wg.Add(1), start the goroutine with dbName as its argument;
\* the goroutine's first statement registers the deferred wg.Done.
Dispatch ==
    /\ Running
    /\ pcMain = "dispatch"
    /\ MoreTargets(next, databases)
    /\ next \in Attempts
    /\ wg' = wg + 1
    /\ pc' = [pc EXCEPT ![next] = "connect"]
    /\ dbName' = [dbName EXCEPT ![next] = RangeElement(next, databases)]
    /\ defers' = [defers EXCEPT ![next] = DeferDone(<<>>)]
    /\ next' = next + 1
    /\ UNCHANGED <<pcMain, fetchErr, ctlConn, databases, chanCap, results, returned,
                   printed, logged, exitCode, panicked, pcCloser, db, err>>
    /\ UNCHANGED <<chanVars, histVars>>

\* Lines 112-115: the loop is over, start the goroutine that waits and closes.
SpawnCloser ==
    /\ Running
    /\ pcMain = "dispatch"
    /\ ~MoreTargets(next, databases)
    /\ pcCloser' = "wait"
    /\ pcMain' = "collect"
    /\ UNCHANGED <<fetchErr, ctlConn, databases, next, wg, chanCap, results, returned,
                   printed, logged, exitCode, panicked>>
    /\ UNCHANGED <<chanVars, localVars, histVars>>

\* Faulty variant of the wait: the channel is closed without waiting.
WaitReturnsAtOnce(counter) == TRUE

\* Faulty variant of the wait: it returns while one goroutine is still running.
WaitReturnsEarly(counter) == counter <= 1

\* wg.Wait() returns when the counter is zero.
WaitReturns(counter) == counter = 0

\* Line 113.
CloserWait ==
    /\ Running
    /\ pcCloser = "wait"
    /\ WaitReturns(wg)
    /\ pcCloser' = "close"
    /\ UNCHANGED <<mainVars, wg, panicked>>
    /\ UNCHANGED <<chanVars, localVars, histVars>>

\* Line 114: close(resultsCh); closing a closed channel panics.
CloserClose ==
    /\ Running
    /\ pcCloser = "close"
    /\ panicked' = chClosed
    /\ chClosed' = TRUE
    /\ closeCalls' = closeCalls + 1
    /\ pcCloser' = "finished"
    /\ UNCHANGED <<mainVars, wg, resultsCh>>
    /\ UNCHANGED <<localVars, histVars>>

\* Faulty variant of the append: the slice is overwritten by the new result.
AppendResultOverwrite(rs, r) == <<r>>

\* Faulty variant of the append: a result replaces the earlier results of
\* the same database.
AppendResultByName(rs, r) ==
    IF \E k \in DOMAIN rs : rs[k].Database = r.Database
      THEN [k \in DOMAIN rs |-> IF rs[k].Database = r.Database THEN r ELSE rs[k]]
      ELSE Append(rs, r)

\* results = append(results, result)
AppendResult(rs, r) == Append(rs, r)

\* Lines 118-120, one iteration: receive the oldest buffered result.
Collect ==
    /\ Running
    /\ pcMain = "collect"
    /\ resultsCh # <<>>
    /\ results' = AppendResult(results, Head(resultsCh))
    /\ resultsCh' = Tail(resultsCh)
    /\ UNCHANGED <<pcMain, fetchErr, ctlConn, databases, next, wg, chanCap, returned,
                   printed, logged, exitCode, panicked, pcCloser, chClosed, closeCalls>>
    /\ UNCHANGED <<localVars, histVars>>

\* The range over the channel ends when it is closed and drained.
RangeEnds(ch, closed) == closed /\ ch = <<>>

\* Lines 118-122: the loop ends and migrateDatabases returns results.
ReturnResults ==
    /\ Running
    /\ pcMain = "collect"
    /\ RangeEnds(resultsCh, chClosed)
    /\ returned' = results
    /\ pcMain' = "print"
    /\ UNCHANGED <<fetchErr, ctlConn, databases, next, wg, chanCap, results, printed,
                   logged, exitCode, panicked, pcCloser>>
    /\ UNCHANGED <<chanVars, localVars, histVars>>

\* Faulty variant of lines 151-158: the error of a failed result is not printed.
ResultLinesNoError(r) == << <<IF r.Success THEN "Success" ELSE "Failed", r.Database>> >>

\* printMigrationResults, lines 150-159: the lines printed for one result.
ResultLines(r) ==
    IF r.Success
      THEN << <<"Success", r.Database>> >>
      ELSE << <<"Failed", r.Database>>, <<"Error", r.Error>> >>

RECURSIVE ReportLines(_)
ReportLines(rs) ==
    IF rs = <<>> THEN <<>> ELSE ResultLines(Head(rs)) \o ReportLines(Tail(rs))

\* main line 44: print the report.
PrintMigrationResults ==
    /\ Running
    /\ pcMain = "print"
    /\ printed' = << <<"Migration Results:">> >> \o ReportLines(returned)
    /\ pcMain' = "exit"
    /\ UNCHANGED <<fetchErr, ctlConn, databases, next, wg, chanCap, results, returned,
                   logged, exitCode, panicked, pcCloser>>
    /\ UNCHANGED <<chanVars, localVars, histVars>>

\* main returns: the process exits with status 0.
MainReturn ==
    /\ Running
    /\ pcMain = "exit"
    /\ exitCode' = 0
    /\ pcMain' = "done"
    /\ UNCHANGED <<fetchErr, ctlConn, databases, next, wg, chanCap, results, returned,
                   printed, logged, panicked, pcCloser>>
    /\ UNCHANGED <<chanVars, localVars, histVars>>

(***************************************************************************)
(* The migration goroutine of lines 82-109                                 *)
(***************************************************************************)

\* Faulty variant of the connect: every call returns the same handle.
NewHandleShared(a) == 1

\* sql.Open returns a new *sql.DB on every call: the handle of goroutine a.
NewHandle(a) == a

\* Faulty variant of the assignment: err is one variable captured by every
\* goroutine, so an assignment is seen by all of them.
SetErrShared(errs, a, e) == [b \in DOMAIN errs |-> e]

\* Assignment to the goroutine's own err (declared inside the closure).
SetErr(errs, a, e) == [errs EXCEPT ![a] = e]

\* Faulty variant of lines 87-90: the error is not checked, the goroutine
\* goes on to load.
AfterConnectNoReturn(ok) == "load"

\* Faulty variant of lines 87-90: a failed connect is tried again.
AfterConnectRetry(ok) == IF ok THEN "load" ELSE "connect"

\* Lines 87-91: on an error send the failure and return, else go on to load.
AfterConnect(ok) == IF ok THEN "load" ELSE "sendConnErr"

\* Faulty variant of line 91: the Close is not deferred.
DeferCloseMissing(ds) == ds

\* Faulty variant of line 91: the Close runs after wg.Done instead of before.
DeferCloseLast(ds) == ds \o <<"db.Close">>

\* Line 91: defer db.Close() is registered after a successful connect.
DeferClose(ds) == <<"db.Close">> \o ds

\* Lines 86-91: connectToDatabase(config.DBUsername, dbName).
Connect(a) ==
    /\ Running
    /\ pc[a] = "connect"
    /\ connCalls' = [connCalls EXCEPT ![a] = @ + 1]
    /\ \E ok \in BOOLEAN :
         /\ connOutcome' = [connOutcome EXCEPT ![a] = IF ok THEN "ok" ELSE "err"]
         /\ err' = SetErr(err, a, IF ok THEN NoError ELSE ConnectionError)
         /\ db' = [db EXCEPT ![a] = IF ok THEN NewHandle(a) ELSE 0]
         /\ handleOwner' = IF ok THEN [handleOwner EXCEPT ![NewHandle(a)] = a]
                                 ELSE handleOwner
         /\ handleDb' = IF ok THEN [handleDb EXCEPT ![NewHandle(a)] = dbName[a]]
                              ELSE handleDb
         /\ defers' = [defers EXCEPT ![a] = IF ok THEN DeferClose(@) ELSE @]
         /\ pc' = [pc EXCEPT ![a] = AfterConnect(ok)]
    /\ UNCHANGED <<mainVars, wg, panicked, pcCloser, dbName>>
    /\ UNCHANGED <<chanVars, sent, loadCalls, execCalls, loadOutcome, execOutcome,
                   closeCount, released, execOn>>

\* Faulty variant of lines 95-98: the load error is not checked.
AfterLoadNoReturn(ok) == "exec"

\* Lines 95-98: on an error send the failure and return, else go on to execute.
AfterLoad(ok) == IF ok THEN "exec" ELSE "sendLoadErr"

\* Lines 94-98: readMigrationScript(config.MigrationDir).
Load(a) ==
    /\ Running
    /\ pc[a] = "load"
    /\ loadCalls' = [loadCalls EXCEPT ![a] = @ + 1]
    /\ \E ok \in BOOLEAN :
         /\ loadOutcome' = [loadOutcome EXCEPT ![a] = IF ok THEN "ok" ELSE "err"]
         /\ err' = SetErr(err, a, IF ok THEN NoError ELSE ScriptLoadError)
         /\ pc' = [pc EXCEPT ![a] = AfterLoad(ok)]
    /\ UNCHANGED <<mainVars, wg, panicked, pcCloser, dbName, db, defers>>
    /\ UNCHANGED <<chanVars, sent, connCalls, execCalls, connOutcome, execOutcome,
                   handleOwner, handleDb, closeCount, released, execOn>>

\* Faulty variant of lines 102-105: the execution error is not checked.
AfterExecIgnoreError(ok) == "sendSuccess"

\* Lines 102-108: on an error send the failure, else send the success.
AfterExec(ok) == IF ok THEN "sendSuccess" ELSE "sendExecErr"

\* Lines 101-105: executeMigration(db, migrationScript) on the goroutine's db.
Exec(a) ==
    /\ Running
    /\ pc[a] = "exec"
    /\ execCalls' = [execCalls EXCEPT ![a] = @ + 1]
    /\ execOn' = execOn \cup {<<a, db[a]>>}
    /\ \E ok \in BOOLEAN :
         /\ execOutcome' = [execOutcome EXCEPT ![a] = IF ok THEN "ok" ELSE "err"]
         /\ err' = SetErr(err, a, IF ok THEN NoError ELSE ExecutionError)
         /\ pc' = [pc EXCEPT ![a] = AfterExec(ok)]
    /\ UNCHANGED <<mainVars, wg, panicked, pcCloser, dbName, db, defers>>
    /\ UNCHANGED <<chanVars, sent, connCalls, loadCalls, connOutcome, loadOutcome,
                   handleOwner, handleDb, closeCount, released>>

\* resultsCh <- r on a channel that has room.
ChanSend(ch, r) == Append(ch, r)

\* The result built at lines 88, 96 and 103.
FailureResult(name, e) == MigrationResult(name, FALSE, e)

\* The result built at line 108.
SuccessResult(name) == MigrationResult(name, TRUE, NoError)

\* The goroutine ends when its last deferred call has run.
AfterDeferred(ds) == IF ds = <<>> THEN "finished" ELSE "return"

\* resultsCh <- r followed by return: a send on a closed channel panics, a
\* send on a full channel blocks.
SendAndReturn(a, r) ==
    /\ Running
    /\ chClosed \/ Len(resultsCh) < chanCap
    /\ panicked' = chClosed
    /\ resultsCh' = IF chClosed THEN resultsCh ELSE ChanSend(resultsCh, r)
    /\ sent' = IF chClosed THEN sent ELSE [sent EXCEPT ![a] = Append(@, r)]
    /\ pc' = [pc EXCEPT ![a] = AfterDeferred(defers[a])]
    /\ UNCHANGED <<mainVars, wg, pcCloser, chClosed, closeCalls, dbName, db, err, defers>>
    /\ UNCHANGED <<connCalls, loadCalls, execCalls, connOutcome, loadOutcome,
                   execOutcome, handleOwner, handleDb, closeCount, released, execOn>>

\* Lines 88-89.
SendConnectFailed(a) ==
    /\ pc[a] = "sendConnErr"
    /\ SendAndReturn(a, FailureResult(dbName[a], err[a]))

\* Lines 96-97.
SendLoadFailed(a) ==
    /\ pc[a] = "sendLoadErr"
    /\ SendAndReturn(a, FailureResult(dbName[a], err[a]))

\* Lines 103-104.
SendExecFailed(a) ==
    /\ pc[a] = "sendExecErr"
    /\ SendAndReturn(a, FailureResult(dbName[a], err[a]))

\* Line 108.
SendSucceeded(a) ==
    /\ pc[a] = "sendSuccess"
    /\ SendAndReturn(a, SuccessResult(dbName[a]))

\* Line 91 at return: the deferred db.Close() on the goroutine's handle;
\* Close on a nil *sql.DB panics.
DeferredClose(a) ==
    /\ Running
    /\ pc[a] = "return"
    /\ defers[a] # <<>>
    /\ Head(defers[a]) = "db.Close"
    /\ panicked' = (db[a] = 0)
    /\ closeCount' = IF db[a] = 0 THEN closeCount ELSE [closeCount EXCEPT ![db[a]] = @ + 1]
    /\ released' = [released EXCEPT ![a] = @ + 1]
    /\ defers' = [defers EXCEPT ![a] = Tail(@)]
    /\ pc' = [pc EXCEPT ![a] = AfterDeferred(Tail(defers[a]))]
    /\ UNCHANGED <<mainVars, wg, pcCloser, dbName, db, err>>
    /\ UNCHANGED <<chanVars, sent, connCalls, loadCalls, execCalls, connOutcome,
                   loadOutcome, execOutcome, handleOwner, handleDb, execOn>>

\* Line 83 at return: the deferred wg.Done(); a negative counter panics.
DeferredDone(a) ==
    /\ Running
    /\ pc[a] = "return"
    /\ defers[a] # <<>>
    /\ Head(defers[a]) = "wg.Done"
    /\ panicked' = (wg = 0)
    /\ wg' = IF wg = 0 THEN wg ELSE wg - 1
    /\ defers' = [defers EXCEPT ![a] = Tail(@)]
    /\ pc' = [pc EXCEPT ![a] = AfterDeferred(Tail(defers[a]))]
    /\ UNCHANGED <<mainVars, pcCloser, dbName, db, err>>
    /\ UNCHANGED <<chanVars, histVars>>

Next ==
    \/ FetchDatabases
    \/ FatalFetch
    \/ StartMigrate
    \/ Dispatch
    \/ SpawnCloser
    \/ CloserWait
    \/ CloserClose
    \/ Collect
    \/ ReturnResults
    \/ PrintMigrationResults
    \/ MainReturn
    \/ \E a \in Attempts : Connect(a)
    \/ \E a \in Attempts : Load(a)
    \/ \E a \in Attempts : Exec(a)
    \/ \E a \in Attempts : SendConnectFailed(a)
    \/ \E a \in Attempts : SendLoadFailed(a)
    \/ \E a \in Attempts : SendExecFailed(a)
    \/ \E a \in Attempts : SendSucceeded(a)
    \/ \E a \in Attempts : DeferredClose(a)
    \/ \E a \in Attempts : DeferredDone(a)

Spec == Init /\ [][Next]_vars

\* The steps of main, of the closing goroutine and of one migration goroutine.
MainNext ==
    \/ FetchDatabases
    \/ FatalFetch
    \/ StartMigrate
    \/ Dispatch
    \/ SpawnCloser
    \/ Collect
    \/ ReturnResults
    \/ PrintMigrationResults
    \/ MainReturn

CloserNext == CloserWait \/ CloserClose

AttemptNext(a) ==
    \/ Connect(a)
    \/ Load(a)
    \/ Exec(a)
    \/ SendConnectFailed(a)
    \/ SendLoadFailed(a)
    \/ SendExecFailed(a)
    \/ SendSucceeded(a)
    \/ DeferredClose(a)
    \/ DeferredDone(a)

\* The Go scheduler runs every goroutine that can take a step, and every
\* collaborator call returns.
FairSpec ==
    /\ Spec
    /\ WF_vars(MainNext)
    /\ WF_vars(CloserNext)
    /\ \A a \in Attempts : WF_vars(AttemptNext(a))

\* Type correctness of the state.
TypeOK ==
    /\ pcMain \in {"fetch", "fetched", "fatal", "dispatch", "collect", "print", "exit", "done"}
    /\ pcCloser \in {"none", "wait", "close", "finished"}
    /\ \A a \in Attempts :
         pc[a] \in {"none", "connect", "load", "exec", "sendConnErr", "sendLoadErr",
                    "sendExecErr", "sendSuccess", "return", "finished"}
    /\ wg \in 0..MaxTargets
    /\ exitCode \in {-1, 0, 1}

(***************************************************************************)
(* Properties                                                              *)
(***************************************************************************)

\* migrateDatabases has returned to main.
Returned == pcMain \in {"print", "exit", "done"}

\* Number of occurrences of x in the sequence s.
Count(s, x) == Cardinality({k \in DOMAIN s : s[k] = x})

\* s and t hold the same elements with the same multiplicities.
SameBag(s, t) ==
    /\ Len(s) = Len(t)
    /\ \A k \in DOMAIN s : Count(s, s[k]) = Count(t, s[k])

\* All results sent so far, goroutine by goroutine.
RECURSIVE SentUpTo(_)
SentUpTo(a) == IF a = 0 THEN <<>> ELSE SentUpTo(a - 1) \o sent[a]

AllSent == SentUpTo(MaxTargets)

\* The names of the results in rs.
Names(rs) == [k \in DOMAIN rs |-> rs[k].Database]

\* C1: at every moment the results collected and buffered are exactly the
\* results sent, with multiplicities; when migrateDatabases has returned,
\* each of the N dispatched goroutines has sent one result, the returned
\* slice holds exactly these N results and its names are the names of the
\* input list, each as often as in the input.
C1_ExactlyOneOutcomePerAttempt ==
    /\ SameBag(results \o resultsCh, AllSent)
    /\ Returned =>
         /\ Len(returned) = Len(databases)
         /\ SameBag(returned, AllSent)
         /\ SameBag(Names(returned), databases)
         /\ \A a \in Attempts : Len(sent[a]) = IF a <= Len(databases) THEN 1 ELSE 0

\* Two goroutines completed in the opposite order of their dispatch and
\* migrateDatabases returned both results.
C1_Witness ==
    /\ Returned
    /\ Len(databases) = 2
    /\ databases[1] # databases[2]
    /\ returned[1].Database = databases[2]
    /\ returned[2].Database = databases[1]

\* The goroutine has produced its outcome: it sent its result and is in or
\* past its return.
Terminal(a) == pc[a] \in {"return", "finished"} /\ Len(sent[a]) = 1

\* C2: once migrateDatabases has returned, every dispatched goroutine is
\* terminal, its result is in the returned slice and nothing is left in
\* the channel.
C2_ReturnOnlyAfterBarrier ==
    Returned =>
      /\ resultsCh = <<>>
      /\ \A a \in 1..Len(databases) :
           /\ Terminal(a)
           /\ Count(returned, sent[a][1]) >= 1

\* migrateDatabases has just returned after a load failure of the first
\* goroutine and a success of the second.
C2_Witness ==
    /\ pcMain = "print"
    /\ Len(databases) = 2
    /\ loadOutcome[1] = "err"
    /\ execOutcome[2] = "ok"

\* Everything that belongs to goroutine b: its locals, its history and its
\* connection handle.
AttemptState(b) ==
    <<pc[b], dbName[b], db[b], err[b], defers[b], sent[b], connCalls[b], loadCalls[b],
      execCalls[b], connOutcome[b], loadOutcome[b], execOutcome[b], released[b],
      handleOwner[NewHandle(b)], handleDb[NewHandle(b)], closeCount[NewHandle(b)]>>

\* C3: a step of one goroutine, failing or not, changes nothing that
\* belongs to another goroutine and does not stop the process.
C3_FailureIsolation ==
    [][\A a \in Attempts :
         (pc[a] # "none" /\ pc'[a] # pc[a]) =>
            /\ \A b \in Attempts \ {a} : AttemptState(b)' = AttemptState(b)
            /\ exitCode' = exitCode
            /\ panicked' = panicked]_vars

\* The first connection failed, the second migration succeeded, and both
\* outcomes were returned.
C3_Witness ==
    /\ pcMain = "done"
    /\ Len(databases) = 2
    /\ connOutcome[1] = "err"
    /\ Count(returned, FailureResult(databases[1], ConnectionError)) = 1
    /\ Count(returned, SuccessResult(databases[2])) = 1

\* Sum of f[1] .. f[n].
RECURSIVE SumUpTo(_, _)
SumUpTo(f, n) == IF n = 0 THEN 0 ELSE SumUpTo(f, n - 1) + f[n]

\* Number of successful connectToDatabase calls and of Close calls on handles.
Acquisitions == Cardinality({a \in Attempts : connOutcome[a] = "ok"})

Releases == SumUpTo(closeCount, MaxTargets)

\* C4: no handle is closed more than once or before it was acquired; a
\* goroutine that acquired a handle and has finished closed it exactly
\* once; when migrateDatabases has returned, the number of Close calls
\* equals the number of successful acquisitions.
C4_ReleasedExactlyOnce ==
    /\ \A h \in Attempts :
         /\ closeCount[h] <= 1
         /\ closeCount[h] = 1 => handleOwner[h] # 0
    /\ \A a \in Attempts :
         /\ released[a] <= 1
         /\ (pc[a] = "finished" /\ connOutcome[a] = "ok") =>
               /\ released[a] = 1
               /\ closeCount[db[a]] = 1
    /\ Returned => Releases = Acquisitions

\* One goroutine failed to load, the other failed to execute, both handles
\* were closed and migrateDatabases returned.
C4_Witness ==
    /\ Returned
    /\ loadOutcome[1] = "err"
    /\ execOutcome[2] = "err"
    /\ closeCount[db[1]] = 1
    /\ closeCount[db[2]] = 1

\* C5: a goroutine whose connect failed holds no handle, never loads,
\* executes or closes, is at the send of line 88 or past it, and what it
\* sends is the failure carrying the connection error.
C5_ConnectFailureStopsAttempt ==
    \A a \in Attempts :
       connOutcome[a] = "err" =>
          /\ pc[a] \in {"sendConnErr", "return", "finished"}
          /\ db[a] = 0
          /\ loadCalls[a] = 0
          /\ execCalls[a] = 0
          /\ released[a] = 0
          /\ pc[a] \in {"return", "finished"} =>
                sent[a] = << [Database |-> databases[a], Success |-> FALSE,
                              Error |-> ConnectionError] >>

\* A goroutine whose connect failed has finished.
C5_Witness ==
    \E a \in Attempts : connOutcome[a] = "err" /\ pc[a] = "finished" /\ wg = 0

\* The error of the first step of goroutine a that failed.
FirstError(a) ==
    IF connOutcome[a] = "err" THEN ConnectionError
    ELSE IF loadOutcome[a] = "err" THEN ScriptLoadError
    ELSE IF execOutcome[a] = "err" THEN ExecutionError
    ELSE NoError

AllStepsOk(a) ==
    connOutcome[a] = "ok" /\ loadOutcome[a] = "ok" /\ execOutcome[a] = "ok"

\* C6: the result a goroutine sent names its database, is a success exactly
\* when connect, load and execute all succeeded, carries no error when it
\* is a success and the error of the first failed step otherwise; the
\* returned slice holds only such results.
C6_OutcomeMatchesSteps ==
    /\ \A a \in Attempts :
         sent[a] # <<>> =>
            /\ Len(sent[a]) = 1
            /\ sent[a][1].Database = databases[a]
            /\ sent[a][1].Success <=> AllStepsOk(a)
            /\ sent[a][1].Success => sent[a][1].Error = NoError
            /\ ~sent[a][1].Success =>
                  sent[a][1].Error = FirstError(a) /\ FirstError(a) # NoError
    /\ \A k \in DOMAIN returned :
         \E a \in 1..Len(databases) : sent[a] = <<returned[k]>>

\* An execution failure and a success were both returned.
C6_Witness ==
    /\ Returned
    /\ \E a, b \in Attempts :
         /\ execOutcome[a] = "err"
         /\ AllStepsOk(b)
         /\ Count(returned, sent[a][1]) = 1
         /\ Count(returned, sent[b][1]) = 1

\* migrateDatabases runs on an empty list.
EmptyRun ==
    pcMain \in {"dispatch", "collect", "print", "exit", "done"} /\ databases = <<>>

\* C7: on an empty list no goroutine is started, connectToDatabase and
\* readMigrationScript are never called, nothing is collected, and
\* migrateDatabases does return, with an empty slice.
C7_EmptyList ==
    /\ [](EmptyRun =>
            /\ \A a \in Attempts :
                 pc[a] = "none" /\ connCalls[a] = 0 /\ loadCalls[a] = 0 /\ execCalls[a] = 0
            /\ wg = 0
            /\ resultsCh = <<>>
            /\ results = <<>>
            /\ returned = <<>>)
    /\ (EmptyRun ~> (Returned /\ returned = <<>>))

\* migrateDatabases returned on an empty list and the report was printed.
C7_Witness ==
    /\ EmptyRun
    /\ pcMain = "done"
    /\ chClosed
    /\ printed = << <<"Migration Results:">> >>

\* C8: a goroutine whose load failed never executes, is at the send of
\* line 96 or past it, sends the failure carrying the load error, and has
\* closed its handle when it finishes.
C8_LoadFailureStopsAttempt ==
    \A a \in Attempts :
       loadOutcome[a] = "err" =>
          /\ pc[a] \in {"sendLoadErr", "return", "finished"}
          /\ execCalls[a] = 0
          /\ execOutcome[a] = "none"
          /\ <<a, db[a]>> \notin execOn
          /\ pc[a] \in {"return", "finished"} =>
                sent[a] = << [Database |-> databases[a], Success |-> FALSE,
                              Error |-> ScriptLoadError] >>
          /\ pc[a] = "finished" => closeCount[db[a]] = 1

\* The load failed in every goroutine and all of them finished.
C8_Witness ==
    /\ Len(databases) = 2
    /\ \A a \in 1..2 : loadOutcome[a] = "err" /\ pc[a] = "finished"

\* C9: a goroutine calls connectToDatabase, readMigrationScript and
\* executeMigration at most once each and sends at most one result.
C9_NoRetries ==
    \A a \in Attempts :
       /\ connCalls[a] <= 1
       /\ loadCalls[a] <= 1
       /\ execCalls[a] <= 1
       /\ Len(sent[a]) <= 1

\* Goroutines finished after a failed connect and after a failed execute,
\* each step called once.
C9_Witness ==
    \E a, b \in Attempts :
       /\ connOutcome[a] = "err" /\ pc[a] = "finished" /\ connCalls[a] = 1
       /\ execOutcome[b] = "err" /\ pc[b] = "finished" /\ execCalls[b] = 1

\* C10: when fetchDatabases returned an error, main is at the test of
\* line 36 or has exited through log.Fatal with status 1; no goroutine was
\* started, no connect, load or execute call was made, and nothing was
\* printed.
C10_FetchFailureIsFatal ==
    fetchErr # NoError =>
       /\ pcMain \in {"fetched", "fatal"}
       /\ pcMain = "fatal" => (exitCode = 1 /\ Len(logged) = 1)
       /\ pcMain = "fetched" => exitCode = -1
       /\ \A a \in Attempts :
            pc[a] = "none" /\ connCalls[a] = 0 /\ loadCalls[a] = 0 /\ execCalls[a] = 0
       /\ pcCloser = "none"
       /\ wg = 0
       /\ printed = <<>>

\* The query of fetchDatabases failed and the process exited.
C10_Witness ==
    /\ pcMain = "fatal"
    /\ fetchErr = "queryErr"
    /\ exitCode = 1

\* The status line printed for a result, and the error line of a failure.
StatusLine(r) == <<IF r.Success THEN "Success" ELSE "Failed", r.Database>>

IsStatusLine(l) == l[1] \in {"Success", "Failed"}

\* The report holds the header, then for every result sent one status line
\* with its database, followed by the error line when it failed; it holds
\* as many status lines as there are databases and every error line
\* follows a failure.
ReportComplete ==
    /\ printed # <<>>
    /\ printed[1] = <<"Migration Results:">>
    /\ Cardinality({k \in DOMAIN printed : IsStatusLine(printed[k])}) = Len(databases)
    /\ \A a \in 1..Len(databases) :
         /\ sent[a] # <<>>
         /\ sent[a][1].Database = databases[a]
         /\ \E k \in DOMAIN printed :
              /\ printed[k] = StatusLine(sent[a][1])
              /\ ~sent[a][1].Success =>
                    /\ k + 1 \in DOMAIN printed
                    /\ printed[k + 1] = <<"Error", sent[a][1].Error>>
                    /\ sent[a][1].Error # NoError
    /\ \A k \in DOMAIN printed :
         printed[k][1] = "Error" => (k > 1 /\ printed[k - 1][1] = "Failed")
    /\ \A n \in {databases[k] : k \in DOMAIN databases} :
         Cardinality({k \in DOMAIN printed : IsStatusLine(printed[k]) /\ printed[k][2] = n})
            = Count(databases, n)

\* C11: once the list was fetched the process never exits with a failure
\* status and never panics, whatever the goroutines' calls return; the
\* report printed after migrateDatabases returned is complete; and every
\* run that starts migrating reaches the report and exits with status 0.
C11_TargetFailuresNotFatal ==
    /\ [](pcMain \in {"dispatch", "collect", "print", "exit", "done"} =>
            /\ exitCode \in {-1, 0}
            /\ ~panicked)
    /\ [](pcMain \in {"exit", "done"} => ReportComplete)
    /\ (pcMain = "dispatch" ~> (pcMain = "done" /\ exitCode = 0 /\ ReportComplete))

\* Both migrations failed, one at connect and one at execute; both were
\* reported with their errors and the process exited with status 0.
C11_Witness ==
    /\ pcMain = "done"
    /\ exitCode = 0
    /\ Len(databases) = 2
    /\ connOutcome[1] = "err"
    /\ execOutcome[2] = "err"
    /\ Len(printed) = 5

\* The run is over: main returned or exited through log.Fatal.
Exited == pcMain \in {"done", "fatal"}

\* C12: no state before the exit is a deadlock; under fair scheduling every
\* run reaches its exit with no goroutine left unfinished; and a run that
\* exits after a successful fetch has returned from migrateDatabases with
\* a finished goroutine for every element of the list.
C12_TerminatesWithoutDeadlock ==
    /\ [](~Exited => ENABLED Next)
    /\ <>(Exited /\ \A a \in Attempts : pc[a] \in {"none", "finished"})
    /\ []((Exited /\ fetchErr = NoError) =>
            /\ Returned
            /\ pcCloser = "finished"
            /\ Len(returned) = Len(databases)
            /\ \A a \in 1..Len(databases) : pc[a] = "finished")

\* migrateDatabases returned for two databases whose goroutines ended
\* differently, and the closing goroutine has finished.
C12_Witness ==
    /\ pcMain = "print"
    /\ Len(databases) = 2
    /\ pcCloser = "finished"
    /\ connOutcome[2] = "err"
    /\ execOutcome[1] = "ok"
    /\ \A a \in 1..2 : pc[a] = "finished"

\* C13: while the loop of line 80 has elements left, the next goroutine can
\* be started whatever the earlier ones are doing, and nothing is awaited
\* or collected; when the closing goroutine exists or the collecting loop
\* runs, a goroutine was started for every element of the list.
C13_AllStartedBeforeAwait ==
    /\ (Running /\ pcMain = "dispatch" /\ next <= Len(databases)) =>
          /\ ENABLED Dispatch
          /\ pcCloser = "none"
          /\ results = <<>>
    /\ (pcCloser # "none" \/ pcMain \in {"collect", "print", "exit", "done"}) =>
          \A a \in 1..Len(databases) : pc[a] # "none"

\* The collecting loop starts while both goroutines are still at their
\* first step.
C13_Witness ==
    /\ pcMain = "collect"
    /\ pcCloser = "wait"
    /\ Len(databases) = 2
    /\ \A a \in 1..2 : pc[a] = "connect"
    /\ results = <<>>

\* C14: a goroutine loads only after its connect succeeded, executes only
\* after its load succeeded, and sends only after the last step it ran has
\* returned: a failed step, or all three steps.
C14_StepsSequential ==
    \A a \in Attempts :
       /\ loadCalls[a] > 0 => connOutcome[a] = "ok"
       /\ execCalls[a] > 0 => loadOutcome[a] = "ok"
       /\ pc[a] = "load" => (connOutcome[a] = "ok" /\ loadOutcome[a] = "none")
       /\ pc[a] = "exec" => (loadOutcome[a] = "ok" /\ execOutcome[a] = "none")
       /\ sent[a] # <<>> =>
             \/ connOutcome[a] = "err"
             \/ connOutcome[a] = "ok" /\ loadOutcome[a] = "err"
             \/ connOutcome[a] = "ok" /\ loadOutcome[a] = "ok" /\ execOutcome[a] # "none"

\* The second goroutine has run all its steps and sent its result while
\* the first one, started earlier, has not connected yet.
C14_Witness ==
    /\ pc[1] = "connect"
    /\ execOutcome[2] = "ok"
    /\ sent[2] # <<>>

\* The deferred wg.Done of goroutine a has run.
DoneRan(a) ==
    /\ pc[a] \in {"return", "finished"}
    /\ \A k \in DOMAIN defers[a] : defers[a][k] # "wg.Done"

\* C15 as stated: a goroutine that acquired a connection and has sent its
\* result has closed that connection.
C15_ClosedWhenOutcomeProduced ==
    \A a \in Attempts :
       (connOutcome[a] = "ok" /\ sent[a] # <<>>) => closeCount[db[a]] = 1

\* C15 amended: the connection is closed after the result was sent and
\* before wg.Done runs: a goroutine that acquired a connection and whose
\* wg.Done has run, or that has finished, has closed that connection, and
\* a connection is closed only when its goroutine has sent its result.
C15_ClosedBeforeDone ==
    \A a \in Attempts :
       connOutcome[a] = "ok" =>
          /\ (DoneRan(a) \/ pc[a] = "finished") => closeCount[db[a]] = 1
          /\ closeCount[db[a]] = 1 => sent[a] # <<>>

\* A goroutine has sent its result and closed its connection, and its
\* wg.Done is still to run.
C15_Witness ==
    \E a \in Attempts :
       /\ connOutcome[a] = "ok"
       /\ pc[a] = "return"
       /\ defers[a] = <<"wg.Done">>
       /\ closeCount[db[a]] = 1

\* C16: every Exec ran on a handle that the same goroutine acquired for its
\* own database, no two goroutines hold the same handle, and a handle is
\* closed only by the goroutine that acquired it.
C16_OwnConnectionOnly ==
    /\ [](\A p \in execOn :
            /\ p[2] # 0
            /\ handleOwner[p[2]] = p[1]
            /\ handleDb[p[2]] = databases[p[1]])
    /\ [](\A a, b \in Attempts : (a # b /\ db[a] # 0) => db[a] # db[b])
    /\ [][\A h \in Attempts :
            closeCount'[h] # closeCount[h] =>
               \E a \in Attempts :
                  /\ released'[a] = released[a] + 1
                  /\ db[a] = h
                  /\ handleOwner[h] = a
                  /\ \A b \in Attempts \ {a} : released'[b] = released[b]]_vars

\* Both goroutines executed on their own handles and closed them.
C16_Witness ==
    /\ Cardinality(execOn) = 2
    /\ db[1] # db[2]
    /\ \A a \in 1..2 : <<a, db[a]>> \in execOn /\ closeCount[db[a]] = 1

\* The goroutines started for the database n.
AttemptsFor(n) == {a \in Attempts : pc[a] # "none" /\ dbName[a] = n}

\* C17: when migrateDatabases has returned, for every name of the list as
\* many goroutines were started as the name occurs in the list, each of
\* them called connectToDatabase once, those that connected hold pairwise
\* different handles, and the returned slice holds as many results of
\* that name.
C17_DuplicatesNotMerged ==
    Returned =>
       \A n \in {databases[k] : k \in DOMAIN databases} :
          /\ Cardinality(AttemptsFor(n)) = Count(databases, n)
          /\ \A a \in AttemptsFor(n) : connCalls[a] = 1
          /\ \A a, b \in AttemptsFor(n) : (a # b /\ db[a] # 0) => db[a] # db[b]
          /\ Count(Names(returned), n) = Count(databases, n)

\* The list holds the same name twice; two goroutines connected with
\* different handles and two results of that name were returned.
C17_Witness ==
    /\ Returned
    /\ Len(databases) = 2
    /\ databases[1] = databases[2]
    /\ db[1] # 0 /\ db[2] # 0 /\ db[1] # db[2]
    /\ Len(returned) = 2
    /\ returned[1].Database = returned[2].Database

\* C18: close(resultsCh) is called at most once and has been called once
\* when migrateDatabases has returned; when the channel is closed every
\* started goroutine has sent its result and finished; no goroutine ever
\* panics on a send to the closed channel.
C18_ClosedOnceAfterAllSent ==
    /\ closeCalls <= 1
    /\ chClosed <=> closeCalls = 1
    /\ Returned => closeCalls = 1
    /\ ~panicked
    /\ chClosed =>
          /\ pcCloser = "finished"
          /\ wg = 0
          /\ \A a \in 1..Len(databases) : pc[a] = "finished" /\ Len(sent[a]) = 1

\* The channel was closed while both results were still buffered.
C18_Witness ==
    /\ chClosed
    /\ closeCalls = 1
    /\ pcMain = "collect"
    /\ Len(resultsCh) = 2
    /\ results = <<>>

SendPositions == {"sendConnErr", "sendLoadErr", "sendExecErr", "sendSuccess"}

\* C19: the channel has the capacity N and never buffers more than the
\* number of goroutines that have sent; a goroutine at a send finds room
\* in the open channel, and a goroutine that has not finished can always
\* take its next step, whatever the collecting loop has done.
C19_SendNeverBlocks ==
    /\ pcMain \in {"dispatch", "collect", "print", "exit", "done"} =>
          chanCap = Len(databases)
    /\ Len(resultsCh) <= chanCap
    /\ Len(resultsCh) + Len(results) = Cardinality({a \in Attempts : sent[a] # <<>>})
    /\ \A a \in Attempts :
         /\ pc[a] \in SendPositions => (Len(resultsCh) < chanCap /\ ~chClosed)
         /\ (Running /\ pc[a] \notin {"none", "finished"}) => ENABLED AttemptNext(a)

\* Both goroutines have finished and the channel is full before the
\* collecting loop has started.
C19_Witness ==
    /\ pcMain = "dispatch"
    /\ Len(databases) = 2
    /\ \A a \in 1..2 : pc[a] = "finished"
    /\ Len(resultsCh) = 2
    /\ chanCap = 2
    /\ results = <<>>

\* The handles that were acquired and not closed yet.
OpenHandles == {h \in Attempts : handleOwner[h] # 0 /\ closeCount[h] = 0}

\* C20: every open handle belongs to a goroutine whose wg.Done has not run,
\* so there are at most as many open handles as the WaitGroup counts; when
\* the channel is closed, and so when migrateDatabases has returned, no
\* handle is open.
C20_AllClosedAtReturn ==
    /\ \A h \in OpenHandles : ~DoneRan(handleOwner[h])
    /\ Cardinality(OpenHandles) <= wg
    /\ chClosed => OpenHandles = {}
    /\ Returned => (OpenHandles = {} /\ wg = 0)

\* migrateDatabases has just returned after two successful migrations and
\* both connections are closed.
C20_Witness ==
    /\ pcMain = "print"
    /\ Len(databases) = 2
    /\ \A a \in 1..2 : AllStepsOk(a) /\ closeCount[db[a]] = 1
====
